---- MODULE Spec2Model ----
(***************************************************************************)
(* Model of wasabi's graphics bootstrap (src/main.rs): the firmware        *)
(* Graphics Output Protocol lookup, the VramBufferInfo view, the Bitmap    *)
(* addressing trait, draw_point / fill_rect, and the efi_main start-up     *)
(* sequence.                                                               *)
(*                                                                         *)
(* Two specifications share the definitions:                               *)
(*   Spec      a caller issuing arbitrary pixel_at_mut / draw_point /      *)
(*             fill_rect calls on a view of arbitrary geometry;            *)
(*   SpecBoot  efi_main, from init_vram to the final hlt loop.             *)
(*                                                                         *)
(* u32 arithmetic is arithmetic modulo 2^word_bits.  The source fixes the  *)
(* width at 32; the model runs it at a reduced width so that operands      *)
(* near the top of the range, and buffers whose byte size exceeds the      *)
(* range, can be enumerated.  An overflowing u32 operation panics when     *)
(* the crate is built with overflow checks (the dev profile) and wraps     *)
(* otherwise (the release profile): overflow_checks records the build.     *)
(***************************************************************************)
EXTENDS Integers, FiniteSets, Sequences, TLC

VARIABLES
    word_bits,          \* width of u32 in this run
    overflow_checks,    \* TRUE: overflow panics; FALSE: overflow wraps
    firmware,           \* what locate_protocol answers: status and descriptor
    vram,               \* the VramBufferInfo, or NoVram before init_vram
    mem,                \* memory written so far: byte address -> pixel value
    pre,                \* mem as it was before the last call
    last,               \* the last Bitmap call: arguments, result, writes
    pc,                 \* position of the caller
    i,                  \* loop variable of efi_main's for loop
    ncalls              \* number of calls issued so far (Spec)

vars == <<word_bits, overflow_checks, firmware, vram, mem, pre, last, pc, i, ncalls>>

----------------------------------------------------------------------------
(* Bounds *)

ApiWordBits == 6
BootWordBits == 24
MaxWidth == 3
MaxHeight == 1
MaxCalls == 2

----------------------------------------------------------------------------
(* u32 arithmetic *)

U32 == 2 ^ word_bits

\* The exact result of an operation is not a u32.
Overflows(n) == n < 0 \/ n >= U32

\* The u32 a wrapping operation yields.
Wrap(n) == n % U32

Min(a, b) == IF a < b THEN a ELSE b

----------------------------------------------------------------------------
(* Memory, in pixel cells: cell c is the bytes_per_pixel bytes at address  *)
(* c * bytes_per_pixel.  mem is the sequence of what the cells             *)
(* 0 .. Len(mem) - 1 hold (cell c at index c + 1), as long as the highest  *)
(* cell written needs; a cell never written holds Unwritten, standing for  *)
(* what the firmware left there.                                           *)

bytes_per_pixel == 4

Unwritten == 0 - 1

EmptyMem == << >>

Load(m, c) == IF c < Len(m) THEN m[c + 1] ELSE Unwritten

CellOf(ptr) == ptr \div bytes_per_pixel

SetMax(S) ==
    LET neg == { 0 - n : n \in S }
    IN  0 - (CHOOSE a \in neg : \A b \in neg : a <= b)

\* *ptr = color for every ptr of the set ptrs, onto the memory m.
StoreCells(m, cells, color, top) ==
    [n \in 1 .. top |-> IF (n - 1) \in cells THEN color ELSE Load(m, n - 1)]
    \o << >>

Store(m, ptrs, color) ==
    IF ptrs = {} THEN m
    ELSE LET cells == { CellOf(p) : p \in ptrs }
             high  == SetMax(cells) + 1
         IN  IF Cardinality(ptrs) = 1 /\ high <= Len(m)
             THEN [m EXCEPT ![high] = color]
             ELSE StoreCells(m, cells, color, IF high > Len(m) THEN high ELSE Len(m))

----------------------------------------------------------------------------
(* Firmware Descriptor Locator *)

EFI_SUCCESS == 0
\* The statuses other than success that locate_protocol may answer:
\* EFI_NOT_FOUND, 0x800000000000000E, of which the model keeps the low bits.
NonSuccessStatuses == { 14 }

NoVram == [buf |-> 0, width |-> 0, height |-> 0, pixels_per_line |-> 0,
           valid |-> FALSE]

NullGop == [frame_buffer_base |-> 0, horizontal_resolution |-> 0,
            vertical_resolution |-> 0, pixels_per_scan_line |-> 0]

\* <<horizontal_resolution, vertical_resolution, pixels_per_scan_line>>
BootResolutions ==
    { <<0, 0, 0>>, <<48, 48, 64>>, <<100, 100, 128>>, <<200, 200, 256>>,
      <<256, 256, 256>>, <<260, 256, 288>> }

BootBases == { 4096 }

Descriptors ==
    { [frame_buffer_base |-> b, horizontal_resolution |-> r[1],
       vertical_resolution |-> r[2], pixels_per_scan_line |-> r[3]] :
         b \in BootBases, r \in BootResolutions }

\* locate_graphic_protocol.  EfiStatus declares the single variant
\* Success = 0, so a non-zero status is not a value of the type: comparing
\* it with Success is undefined behaviour.  The build either compares the
\* raw status (the error is returned) or folds the comparison to "equal"
\* (the untouched protocol pointer is dereferenced and whatever lies there
\* is read as the descriptor).
locate_graphic_protocol(fw) ==
    IF fw.status = EFI_SUCCESS
    THEN { [ok |-> TRUE, gp |-> fw.gop] }
    ELSE { [ok |-> FALSE, gp |-> NullGop] }
         \cup { [ok |-> TRUE, gp |-> d] : d \in Descriptors }

\* init_vram on one outcome of the locator: `?` propagates the error.
init_vram(located) ==
    IF ~located.ok
    THEN [ok |-> FALSE, vram |-> NoVram]
    ELSE [ok |-> TRUE,
          vram |-> [buf |-> located.gp.frame_buffer_base,
                    width |-> located.gp.horizontal_resolution,
                    height |-> located.gp.vertical_resolution,
                    pixels_per_line |-> located.gp.pixels_per_scan_line,
                    valid |-> TRUE]]

----------------------------------------------------------------------------
(* Bitmap Addressing Layer *)

\* A variant of is_in_x_range that bounds x by the stride alone.
is_in_x_range_by_stride(v, px) == px < v.pixels_per_line

is_in_x_range(v, px) == px < Min(v.width, v.pixels_per_line)

is_in_y_range(v, py) == py < v.height

\* (y * pixels_per_line + x) * bytes_per_pixel, each step in u32, then
\* `as usize` (a zero extension) and buf.add.
unchecked_pixel_at_mut(v, x, y) ==
    LET t1 == y * v.pixels_per_line
        t2 == Wrap(t1) + x
        t3 == Wrap(t2) * bytes_per_pixel
    IN  [panic |-> overflow_checks
                   /\ (Overflows(t1) \/ Overflows(t2) \/ Overflows(t3)),
         ptr |-> v.buf + Wrap(t3)]

pixel_at_mut(v, x, y) ==
    IF is_in_x_range(v, x) /\ is_in_y_range(v, y)
    THEN LET p == unchecked_pixel_at_mut(v, x, y)
         IN  IF p.panic
             THEN [kind |-> "panic", ptr |-> 0]
             ELSE [kind |-> "Some", ptr |-> p.ptr]
    ELSE [kind |-> "None", ptr |-> 0]

Ok == "Ok"
OutOfBounds == "Out of bounds"
Panic == "panic"

draw_point(v, m, color, x, y) ==
    LET r == pixel_at_mut(v, x, y)
    IN  CASE r.kind = "None"  -> [result |-> OutOfBounds, mem |-> m, writes |-> {}]
          [] r.kind = "panic" -> [result |-> Panic, mem |-> m, writes |-> {}]
          [] r.kind = "Some"  -> [result |-> Ok,
                                  mem |-> Store(m, {r.ptr}, color),
                                  writes |-> {r.ptr}]

\* One iteration of fill_rect's loops: unchecked_draw_point(buf, color,
\* x + j, y + k).
FillIteration(v, x, y, j, k) ==
    LET px == x + j
        py == y + k
        p  == unchecked_pixel_at_mut(v, Wrap(px), Wrap(py))
    IN  [panic |-> (overflow_checks /\ (Overflows(px) \/ Overflows(py)))
                   \/ p.panic,
         ptr |-> p.ptr]

\* The loops of fill_rect, row-major: iteration n is row n \div w, column
\* n % w.  The loop stops at the first iteration that panics; the
\* iterations before it have written.
FillLoop(v, m, color, x, y, w, h) ==
    LET N     == 0 .. (h * w - 1)
        It(n) == FillIteration(v, x, y, n % w, n \div w)
        Bad   == IF overflow_checks THEN { n \in N : It(n).panic } ELSE {}
        stop  == IF Bad = {} THEN h * w
                 ELSE CHOOSE b \in Bad : \A c \in Bad : b <= c
    IN  CHOOSE r \in { [result |-> IF Bad = {} THEN Ok ELSE Panic,
                        mem |-> Store(m, ws, color),
                        writes |-> ws] :
                         ws \in { { It(n).ptr : n \in 0 .. (stop - 1) } } } : TRUE

\* x + w - 1 (and y + h - 1) as the source evaluates it: (x + w) - 1.
LastCorner(a, n) ==
    LET s == a + n
        c == Wrap(s) - 1
    IN  [panic |-> overflow_checks /\ (Overflows(s) \/ Overflows(c)),
         val |-> Wrap(c)]

fill_rect(v, m, color, x, y, w, h) ==
    LET rejected == [result |-> OutOfBounds, mem |-> m, writes |-> {}]
        panicked == [result |-> Panic, mem |-> m, writes |-> {}]
        cx == LastCorner(x, w)
        cy == LastCorner(y, h)
    IN  IF ~is_in_x_range(v, x) \/ ~is_in_y_range(v, y) THEN rejected
        ELSE IF cx.panic THEN panicked
        ELSE IF ~is_in_x_range(v, cx.val) THEN rejected
        ELSE IF cy.panic THEN panicked
        ELSE IF ~is_in_y_range(v, cy.val) THEN rejected
        ELSE FillLoop(v, m, color, x, y, w, h)

----------------------------------------------------------------------------
(* The record of a call *)

NoCall == [op |-> "none", color |-> 0, x |-> 0, y |-> 0, w |-> 0, h |-> 0,
           result |-> "none", ptr |-> 0, writes |-> {}]

Call(op, color, x, y, w, h, result, ptr, writes) ==
    [op |-> op, color |-> color, x |-> x, y |-> y, w |-> w, h |-> h,
     result |-> result, ptr |-> ptr, writes |-> writes]

----------------------------------------------------------------------------
(* Spec: a caller of the Bitmap layer.  The view is built directly, with   *)
(* any geometry: width against stride smaller, equal or larger, heights    *)
(* up to TallHeight, where the byte size of the buffer exceeds the u32     *)
(* range.  The arguments are the coordinates around the view and the       *)
(* values at the top of the u32 range.                                     *)

TallHeight == U32 \div bytes_per_pixel

ApiBases == { 16 }

\* Black and the all-ones pixel.
Colors == { 0, U32 - 1 }

\* The strides tried with a width: one less, equal, one more (padding).
Strides(gw) == { n \in {gw - 1, gw, gw + 1} : n >= 0 }

Geometries ==
    UNION { { [buf |-> b, width |-> gw, height |-> gh, pixels_per_line |-> gs,
               valid |-> TRUE] :
                 b \in ApiBases, gs \in Strides(gw),
                 gh \in (0 .. MaxHeight) \cup {TallHeight} } :
            gw \in 0 .. MaxWidth }

XArgs == (0 .. MaxWidth) \cup {U32 - 1}
YArgs == (0 .. MaxHeight) \cup {TallHeight - 1, U32 - 1}
WArgs == (0 .. MaxWidth) \cup {U32 - 1}
HArgs == (0 .. MaxHeight) \cup {TallHeight, U32 - 1}

NoFirmware == [status |-> EFI_SUCCESS, gop |-> NullGop]

Init ==
    /\ word_bits = ApiWordBits
    /\ overflow_checks \in BOOLEAN
    /\ firmware = NoFirmware
    /\ vram \in Geometries
    /\ mem = EmptyMem
    /\ pre = EmptyMem
    /\ last = NoCall
    /\ pc = "ready"
    /\ i = 0
    /\ ncalls = 0

\* What every call does around the callee: a panic ends in the panic
\* handler's hlt loop, anything else returns to the caller.
Returned(call, m) ==
    /\ last' = call
    /\ pre' = mem
    /\ mem' = m
    /\ pc' = IF call.result = Panic THEN "panic" ELSE "returned"
    /\ ncalls' = ncalls + 1
    /\ UNCHANGED <<word_bits, overflow_checks, firmware, vram, i>>

PixelAtMut ==
    /\ pc = "ready"
    /\ ncalls < MaxCalls
    /\ \E x \in XArgs, y \in YArgs :
         \E r \in { pixel_at_mut(vram, x, y) } :
             Returned(Call("pixel_at_mut", 0, x, y, 0, 0, r.kind, r.ptr, {}), mem)

DrawPoint ==
    /\ pc = "ready"
    /\ ncalls < MaxCalls
    /\ \E color \in Colors, x \in XArgs, y \in YArgs :
         \E r \in { draw_point(vram, mem, color, x, y) } :
             Returned(Call("draw_point", color, x, y, 0, 0, r.result, 0, r.writes),
                      r.mem)

FillRect ==
    /\ pc = "ready"
    /\ ncalls < MaxCalls
    /\ \E color \in Colors, x \in XArgs, y \in YArgs, w \in WArgs, h \in HArgs :
         \E r \in { fill_rect(vram, mem, color, x, y, w, h) } :
             Returned(Call("fill_rect", color, x, y, w, h, r.result, 0, r.writes),
                      r.mem)

\* The caller drops the result and goes on.
Continue ==
    /\ pc = "returned"
    /\ pc' = "ready"
    /\ last' = NoCall
    /\ pre' = mem
    /\ UNCHANGED <<word_bits, overflow_checks, firmware, vram, mem, i, ncalls>>

\* hlt(): the final loop of efi_main and the panic handler's loop.
Hlt ==
    /\ pc \in {"hlt_loop", "panic"}
    /\ UNCHANGED vars

Next == PixelAtMut \/ DrawPoint \/ FillRect \/ Continue \/ Hlt

Spec == Init /\ [][Next]_vars

\* The point operations alone (pixel_at_mut, draw_point): the calls a
\* client makes without fill_rect.
NextPoint == PixelAtMut \/ DrawPoint \/ Continue \/ Hlt

SpecPoint == Init /\ [][NextPoint]_vars

----------------------------------------------------------------------------
(* SpecBoot: efi_main.                                                     *)

InitBoot ==
    /\ word_bits = BootWordBits
    /\ overflow_checks \in BOOLEAN
    /\ firmware \in { [status |-> EFI_SUCCESS, gop |-> d] : d \in Descriptors }
                    \cup { [status |-> st, gop |-> NullGop] : st \in NonSuccessStatuses }
    /\ vram = NoVram
    /\ mem = EmptyMem
    /\ pre = EmptyMem
    /\ last = NoCall
    /\ pc = "init_vram"
    /\ i = 0
    /\ ncalls = 0

\* A variant of Expect that drops an error, as `let _ =` does.
ExpectDropped(result, then) == IF result = Panic THEN "panic" ELSE then

\* .expect(..): where efi_main goes on a Result.
Expect(result, then) == IF result = Ok THEN then ELSE "panic"

\* let mut vram = init_vram(efi_system_table).expect("Failed to init vram");
InitVram ==
    /\ pc = "init_vram"
    /\ \E located \in locate_graphic_protocol(firmware) :
         LET r == init_vram(located)
         IN  /\ vram' = r.vram
             /\ pc' = Expect(IF r.ok THEN Ok ELSE "Failed to locate", "fill_screen")
    /\ UNCHANGED <<word_bits, overflow_checks, firmware, mem, pre, last, i, ncalls>>

\* fill_rect(&mut vram, color, x, y, w, h).expect("fill_rect failed");
ExpectFillRect(at, then, color, x, y, w, h) ==
    /\ pc = at
    /\ \E r \in { fill_rect(vram, mem, color, x, y, w, h) } :
           /\ last' = Call("fill_rect", color, x, y, w, h, r.result, 0, r.writes)
           /\ pre' = mem
           /\ mem' = r.mem
           /\ pc' = Expect(r.result, then)
    /\ ncalls' = ncalls + 1
    /\ UNCHANGED <<word_bits, overflow_checks, firmware, vram, i>>

FillScreen ==
    ExpectFillRect("fill_screen", "fill_red", 0, 0, 0, vram.width, vram.height)

\* 0xff0000
FillRed == ExpectFillRect("fill_red", "fill_green", 16711680, 32, 32, 32, 32)

\* 0x00ff00
FillGreen == ExpectFillRect("fill_green", "fill_blue", 65280, 64, 64, 64, 64)

\* 0x0000ff
FillBlue == ExpectFillRect("fill_blue", "draw_loop", 255, 128, 128, 128, 128)

LoopEnd == 256

\* for i in 0..256 { let _ = draw_point(&mut vram, 0x010101 * i, i, i); }
DrawLoop ==
    /\ pc = "draw_loop"
    /\ i < LoopEnd
    /\ \E r \in { draw_point(vram, mem, Wrap(65793 * i), i, i) } :
       LET color == 65793 * i
           panicked == (overflow_checks /\ Overflows(color)) \/ r.result = Panic
       IN  /\ last' = Call("draw_point", Wrap(color), i, i, 0, 0,
                           IF panicked THEN Panic ELSE r.result, 0,
                           IF panicked THEN {} ELSE r.writes)
           /\ pre' = mem
           /\ mem' = IF panicked THEN mem ELSE r.mem
           /\ pc' = IF panicked THEN "panic" ELSE "draw_loop"
    /\ i' = i + 1
    /\ ncalls' = ncalls + 1
    /\ UNCHANGED <<word_bits, overflow_checks, firmware, vram>>

\* The for loop is over: loop { hlt(); }
LoopDone ==
    /\ pc = "draw_loop"
    /\ i = LoopEnd
    /\ pc' = "hlt_loop"
    /\ UNCHANGED <<word_bits, overflow_checks, firmware, vram, mem, pre, last, i, ncalls>>

NextBoot ==
    InitVram \/ FillScreen \/ FillRed \/ FillGreen \/ FillBlue
    \/ DrawLoop \/ LoopDone \/ Hlt

SpecBoot == InitBoot /\ [][NextBoot]_vars

----------------------------------------------------------------------------
(* What the claims speak of, in exact integer arithmetic.                  *)

\* (x, y) names a drawable pixel of the view.
InRange(x, y) ==
    /\ x >= 0 /\ x < vram.width /\ x < vram.pixels_per_line
    /\ y >= 0 /\ y < vram.height

\* base + (y * stride + x) * bytes_per_pixel
ExactPtr(x, y) == vram.buf + (y * vram.pixels_per_line + x) * bytes_per_pixel

\* The addresses of the drawable pixels.
DrawablePtrs ==
    { ExactPtr(x, y) : x \in { n \in 0 .. (vram.width - 1) : n < vram.pixels_per_line },
                       y \in 0 .. (vram.height - 1) }

\* The addresses of the pixels of the rectangle x <= x' < x + w, y <= y' < y + h.
RectPtrs(x, y, w, h) ==
    { ExactPtr(xx, yy) : xx \in x .. (x + w - 1), yy \in y .. (y + h - 1) }

\* The addresses of the padding cells: x >= width within a row of stride cells.
PaddingPtrs ==
    { ExactPtr(x, y) : x \in vram.width .. (vram.pixels_per_line - 1),
                       y \in 0 .. (vram.height - 1) }

\* The cells whose content the last call changed.
ChangedCells ==
    { c \in 0 .. ((IF Len(mem) > Len(pre) THEN Len(mem) ELSE Len(pre)) - 1) :
        Load(mem, c) # Load(pre, c) }

\* The cells outside a set of addresses that the last call changed.
ChangedOutside(ptrs) == { c \in ChangedCells : \A p \in ptrs : CellOf(p) # c }

----------------------------------------------------------------------------
(* Claims *)

\* C1: every cell draw_point or fill_rect writes is a drawable pixel
\* (x' < min(width, stride), y' < height), whatever the call returns and
\* also when x + w or y + h exceeds the u32 range.
C1_WritesStayInBounds ==
    last.op \in {"draw_point", "fill_rect"} => last.writes \subseteq DrawablePtrs

\* C2: for x >= min(width, stride) or y >= height, pixel_at_mut returns
\* None, and draw_point returns the OutOfBounds error and leaves every cell
\* unchanged.
C2_OutOfRangeRejected ==
    /\ (last.op = "pixel_at_mut" /\ ~InRange(last.x, last.y))
         => last.result = "None"
    /\ (last.op = "draw_point" /\ ~InRange(last.x, last.y))
         => (last.result = OutOfBounds /\ last.writes = {} /\ mem = pre)

\* C2, witness: draw_point at x = width, below the stride, was rejected.
C2_Witness ==
    /\ last.op = "draw_point"
    /\ last.x = vram.width
    /\ last.x < vram.pixels_per_line
    /\ last.y < vram.height
    /\ last.result = OutOfBounds

\* C3: fill_rect is all-or-nothing: with a corner (x, y), (x + w - 1,
\* y + h - 1) out of range it returns the OutOfBounds error and changes no
\* cell; otherwise every cell of the rectangle is written.
C3_FillAllOrNothing ==
    last.op = "fill_rect" =>
        IF InRange(last.x, last.y)
           /\ InRange(last.x + last.w - 1, last.y + last.h - 1)
        THEN \A p \in RectPtrs(last.x, last.y, last.w, last.h) :
                 p \in last.writes /\ Load(mem, CellOf(p)) = last.color
        ELSE last.result = OutOfBounds /\ last.writes = {} /\ mem = pre

\* C4: for (x, y) in range, draw_point returns success and pixel_at_mut at
\* (x, y) then yields a cell holding the colour.
C4_DrawPointRoundTrip ==
    (last.op = "draw_point" /\ InRange(last.x, last.y)) =>
        /\ last.result = Ok
        /\ pixel_at_mut(vram, last.x, last.y).kind = "Some"
        /\ Load(mem, CellOf(pixel_at_mut(vram, last.x, last.y).ptr)) = last.color

\* C5: fill_rect with w = 0 or h = 0 returns success or the OutOfBounds
\* error, and writes no cell.
C5_ZeroSizeWritesNothing ==
    (last.op = "fill_rect" /\ (last.w = 0 \/ last.h = 0)) =>
        /\ last.result \in {Ok, OutOfBounds}
        /\ last.writes = {}
        /\ mem = pre

\* C6: fill_rect(color, 0, 0, width, height) sets every in-bounds cell
\* (x < width, y < height) to the colour and leaves every padding cell as
\* it was.  Stated for the views the data model assumes, stride >= width.
C6_FullFillPaintsTheView ==
    (/\ last.op = "fill_rect"
     /\ last.x = 0 /\ last.y = 0
     /\ last.w = vram.width /\ last.h = vram.height
     /\ vram.pixels_per_line >= vram.width) =>
        /\ \A p \in RectPtrs(0, 0, vram.width, vram.height) :
               Load(mem, CellOf(p)) = last.color
        /\ \A p \in PaddingPtrs : Load(mem, CellOf(p)) = Load(pre, CellOf(p))

\* C7: a successful fill_rect writes the colour to exactly the cells of
\* the rectangle and leaves every other cell unchanged.
C7_FillWritesExactlyTheRect ==
    (last.op = "fill_rect" /\ last.result = Ok) =>
        /\ last.writes = RectPtrs(last.x, last.y, last.w, last.h)
        /\ \A p \in RectPtrs(last.x, last.y, last.w, last.h) :
               Load(mem, CellOf(p)) = last.color
        /\ ChangedOutside(RectPtrs(last.x, last.y, last.w, last.h)) = {}

\* C8: when locate_protocol answers a non-success status, no view is built,
\* efi_main halts and no pixel is ever written; on success the view is
\* built from the descriptor's base address, resolutions and
\* pixels-per-scan-line.
C8_LocateFailureHalts ==
    /\ firmware.status # EFI_SUCCESS =>
         (~vram.valid /\ mem = EmptyMem /\ pc \in {"init_vram", "panic"})
    /\ (firmware.status = EFI_SUCCESS /\ pc # "init_vram") =>
         vram = [buf |-> firmware.gop.frame_buffer_base,
                 width |-> firmware.gop.horizontal_resolution,
                 height |-> firmware.gop.vertical_resolution,
                 pixels_per_line |-> firmware.gop.pixels_per_scan_line,
                 valid |-> TRUE]

\* C9: in efi_main an OutOfBounds error of a drawing call is fatal: the
\* program is halted, with no further drawing call; once halted it stays
\* halted and never writes.
C9_OutOfBoundsIsFatal ==
    /\ [](last.result = OutOfBounds => pc = "panic")
    /\ [][pc = "panic" => (pc' = "panic" /\ mem' = mem /\ last' = last
                           /\ ncalls' = ncalls)]_vars

\* C9, witness: a fill_rect of efi_main returned OutOfBounds and the
\* program is halted.
C9_Witness ==
    /\ pc = "panic"
    /\ last.op = "fill_rect"
    /\ last.result = OutOfBounds
    /\ ncalls > 1

\* C10: for (x, y) in range the address unchecked_pixel_at_mut computes in
\* u32 arithmetic is base + (y * stride + x) * bytes_per_pixel in exact
\* arithmetic (so distinct pixels have distinct cells).
C10_OffsetIsExact ==
    (last.op = "pixel_at_mut" /\ InRange(last.x, last.y)) =>
        (last.result = "Some" /\ last.ptr = ExactPtr(last.x, last.y))

====
